---- MODULE Spec2Model ----
(***************************************************************************)
(* FarmAssist (src/app.py): the Streamlit script as a state machine.       *)
(*                                                                         *)
(* Streamlit runs the script top to bottom once per user interaction and   *)
(* once more whenever st.rerun() is called.  One step of the model is one  *)
(* script run: the session-state initialisation of lines 35-41 followed by *)
(* main() (lines 106-213).  st.session_state survives between runs, and so *)
(* does the value held by the file_uploader widget as long as the widget   *)
(* is rendered.                                                            *)
(*                                                                         *)
(* Strings are sequences of one-character strings, so that str.strip() and *)
(* str.title() are computed and not assumed.  A string literal of the      *)
(* program is a one-element sequence holding the literal.                  *)
(*                                                                         *)
(* The entry guard (lines 216-218) calls load_css(), which no module of    *)
(* src/ defines; the model starts at main().                               *)
(***************************************************************************)
EXTENDS Integers, Sequences, FiniteSets, TLC

VARIABLES
    name,           \* st.session_state.name
    region,         \* st.session_state.region
    chat_history,   \* st.session_state.chat_history: sequence of <<user_msg, bot_reply>>
    keys,           \* the keys present in st.session_state
    uploaded_file,  \* value held by the file_uploader widget; NoFile = None
    pc,             \* "idle": waiting for the user; "rerun": st.rerun() was called
    rendered,       \* the widgets the last script run put on the page
    shown,          \* the chat history list the last script run displayed (lines 134-138)
    run             \* what the last script run did (event, upstream calls, errors)

vars == <<name, region, chat_history, keys, uploaded_file, pc, rendered, shown, run>>

----------------------------------------------------------------------------
(* Bounds *)

MaxLen == 3        \* longest string typed into the name field
MaxRegionLen == 2  \* longest string typed into the region field
MaxHist == 2    \* the user starts no further exchange at this history length

Chars == {" ", "a", "A"}

Strings(n) == UNION {[1..k -> Chars] : k \in 0..n}

NameInputs == Strings(MaxLen)
RegionInputs == Strings(MaxRegionLen)
TextInputs == {<<>>, <<" ">>, <<"a">>, <<" ", "A">>}
Replies == {<<"r1">>, <<"r2">>}

NoFile == 0
Files == {1, 2}

\* Outcome of one call of get_gemini_response: a reply, or an exception.
Outcomes == {[ok |-> TRUE, reply |-> r] : r \in Replies}
            \cup {[ok |-> FALSE, reply |-> <<>>]}

----------------------------------------------------------------------------
(* Python string methods *)

IsSpace(c) == c = " "
IsCased(c) == c \in {"a", "A"}
Upper(c) == IF c = "a" THEN "A" ELSE c
Lower(c) == IF c = "A" THEN "a" ELSE c

RECURSIVE lstrip(_)
lstrip(s) == IF s # <<>> /\ IsSpace(Head(s)) THEN lstrip(Tail(s)) ELSE s

RECURSIVE rstrip(_)
rstrip(s) ==
    IF s # <<>> /\ IsSpace(s[Len(s)]) THEN rstrip(SubSeq(s, 1, Len(s) - 1)) ELSE s

\* str.strip()
strip(s) == rstrip(lstrip(s))

\* str.capitalize() in the place of str.title(): only the first character is
\* upper-cased.
title_capitalize(s) ==
    [i \in 1..Len(s) |-> IF i = 1 THEN Upper(s[i]) ELSE Lower(s[i])]

\* str.title(): a cased character is upper-cased when it follows an uncased
\* one (or starts the string) and lower-cased when it follows a cased one.
title(s) ==
    [i \in 1..Len(s) |->
        IF IsCased(s[i])
        THEN IF i > 1 /\ IsCased(s[i - 1]) THEN Lower(s[i]) ELSE Upper(s[i])
        ELSE s[i]]

----------------------------------------------------------------------------
(* Program constants *)

class_names == <<
    "Cashew anthracnose", "Cashew gumosis", "Cashew healthy", "Cashew leaf miner",
    "Cashew red rust", "Cassava bacterial blight", "Cassava brown spot",
    "Cassava green mite", "Cassava healthy", "Cassava mosaic", "Maize fall armyworm",
    "Maize grasshoper", "Maize healthy", "Maize leaf beetle", "Maize leaf blight",
    "Maize leaf spot", "Maize streak virus", "Tomato healthy", "Tomato leaf blight",
    "Tomato leaf curl", "Tomato septoria leaf spot", "Tomato verticulium wilt" >>

\* np.argmax(model.predict(image)) for the images of the model, 0-based.
argmax(f) == IF f = 1 THEN 2 ELSE 21

\* No fallback: a blank region field is stored as it is.
DefaultRegion_Empty == <<>>

DefaultRegion == <<"Nigeria">>

suggestions == <<
    <<"What are the best crops to grow in my region considering the climate and soil?">>,
    <<"What are the most effective irrigation methods for small-scale farming in Nigeria?">>,
    <<"How can I protect my crops from common pests and diseases?">>,
    <<"What are the current market trends and prices for agricultural products?">> >>

AllKeys == {"name", "region", "chat_history"}

\* f"(Uploaded leaf image - predicted: {label})"
ImageMessage(label) == <<"(Uploaded leaf image - predicted: ", label, ")">>

IsImageExchange(x) == Len(x[1]) = 3 /\ x[1][1] = "(Uploaded leaf image - predicted: "

----------------------------------------------------------------------------
(* One script run.  s is the run's working record: the session state, the  *)
(* widget value, and what the run has done so far.                         *)

NoEvent == [kind |-> "none", a |-> <<>>, b |-> <<>>, n |-> 0]

\* Lines 35-41: every run gives a missing key its default.
Initialise(s) ==
    [s EXCEPT !.name = IF "name" \in s.keys THEN @ ELSE <<>>,
              !.region = IF "region" \in s.keys THEN @ ELSE <<>>,
              !.chat_history = IF "chat_history" \in s.keys THEN @ ELSE <<>>,
              !.keys = AllKeys]

\* Lines 87-103.  ret is the function's return value.
handle_prompt(s, prompt, o) ==
    IF strip(prompt) = <<>>
    THEN [s EXCEPT !.ret = FALSE]
    ELSE IF o.ok
         THEN [s EXCEPT !.calls = @ + 1,
                        !.chat_history = Append(@, <<prompt, o.reply>>),
                        !.ret = TRUE]
         ELSE [s EXCEPT !.calls = @ + 1, !.raised = @ + 1,
                        !.errors = @ + 1, !.ret = FALSE]

\* The onboarding form testing `if name:` in the place of `if name.strip():`.
OnboardingForm_NoStrip(s, ev) ==
    LET r == [s EXCEPT !.rendered = {"user_info"}]
    IN  IF ev.kind = "user_info"
        THEN IF ev.a # <<>>
             THEN [r EXCEPT !.name = title(strip(ev.a)),
                            !.region = IF strip(ev.b) # <<>>
                                       THEN title(strip(ev.b))
                                       ELSE DefaultRegion,
                            !.rerun = TRUE]
             ELSE [r EXCEPT !.errors = @ + 1]
        ELSE r

\* Lines 114-129: the onboarding form.
OnboardingForm(s, ev) ==
    LET r == [s EXCEPT !.rendered = {"user_info"}]
    IN  IF ev.kind = "user_info"
        THEN IF strip(ev.a) # <<>>
             THEN [r EXCEPT !.name = title(strip(ev.a)),
                            !.region = IF strip(ev.b) # <<>>
                                       THEN title(strip(ev.b))
                                       ELSE DefaultRegion,
                            !.rerun = TRUE]
             ELSE [r EXCEPT !.errors = @ + 1]
        ELSE r

\* Lines 133-138: the history list.
DisplayHistory(s) == [s EXCEPT !.shown = s.chat_history]

\* Lines 140-153: the chat form.
ChatForm(s, ev, o) ==
    LET r == [s EXCEPT !.rendered = @ \cup {"chat_form"}]
    IN  IF ev.kind = "chat_form" /\ strip(ev.a) # <<>>
        THEN LET h == handle_prompt(r, ev.a, o)
             IN  IF h.ret THEN [h EXCEPT !.rerun = TRUE] ELSE h
        ELSE r

\* Lines 155-177: the uploader and the disease explanation.
ImageUpload(s, o) ==
    LET r == [s EXCEPT !.rendered = @ \cup {"uploader"}]
    IN  IF r.file # NoFile
        THEN IF o.ok
             THEN [r EXCEPT !.calls = @ + 1,
                            !.chat_history =
                                Append(@, <<ImageMessage(class_names[argmax(r.file) + 1]),
                                            o.reply>>)]
             ELSE [r EXCEPT !.calls = @ + 1, !.raised = @ + 1, !.aborted = TRUE]
        ELSE r

\* The button popping "chat_history" alone.
NewSession_HistoryOnly(s, ev) ==
    LET r == [s EXCEPT !.rendered = @ \cup {"new_session"}]
    IN  IF ev.kind = "new_session"
        THEN [r EXCEPT !.keys = @ \ {"chat_history"}, !.chat_history = <<>>,
                       !.rerun = TRUE]
        ELSE r

\* Lines 179-185: the "Start a new session" button.
NewSession(s, ev) ==
    LET r == [s EXCEPT !.rendered = @ \cup {"new_session"}]
    IN  IF ev.kind = "new_session"
        THEN [r EXCEPT !.keys = {}, !.name = <<>>, !.region = <<>>,
                       !.chat_history = <<>>, !.rerun = TRUE]
        ELSE r

\* Lines 187-204: the quick suggestions.
QuickSuggestions(s, ev, o) ==
    IF s.chat_history = <<>>
    THEN LET r == [s EXCEPT !.rendered = @ \cup {"suggestions"}]
         IN  IF ev.kind = "suggestion"
             THEN LET h == handle_prompt(r, suggestions[ev.n + 1], o)
                  IN  IF h.ret THEN [h EXCEPT !.rerun = TRUE] ELSE h
             ELSE r
    ELSE s

\* A statement is reached unless st.rerun() or an uncaught exception ended the run.
Ended(s) == s.rerun \/ s.aborted

\* Lines 106-213.  o1 is the outcome of the call handle_prompt makes, o2 of the
\* call of line 174.
main(s, ev, o1, o2) ==
    IF s.name = <<>>
    THEN OnboardingForm(s, ev)
    ELSE LET s1 == ChatForm(DisplayHistory(s), ev, o1)
             s2 == IF Ended(s1) THEN s1 ELSE ImageUpload(s1, o2)
             s3 == IF Ended(s2) THEN s2 ELSE NewSession(s2, ev)
             s4 == IF Ended(s3) THEN s3 ELSE QuickSuggestions(s3, ev, o1)
         IN  s4

\* The whole script: lines 35-41, then main().
Script(ev, o1, o2) ==
    main(Initialise([name |-> name, region |-> region, chat_history |-> chat_history,
                     keys |-> keys,
                     file |-> IF ev.kind = "upload" THEN ev.n ELSE uploaded_file,
                     rendered |-> {}, shown |-> <<>>, calls |-> 0, raised |-> 0,
                     errors |-> 0, aborted |-> FALSE, rerun |-> FALSE, ret |-> FALSE]),
         ev, o1, o2)

\* The state a script run leaves.  A run that completes drops the value of a
\* widget it did not render; a run ended by st.rerun() or an exception does not.
RunScript(ev, o1, o2) ==
    \E s \in {Script(ev, o1, o2)} :
        /\ name' = s.name
        /\ region' = s.region
        /\ chat_history' = s.chat_history
        /\ keys' = s.keys
        /\ uploaded_file' = IF ~Ended(s) /\ "uploader" \notin s.rendered
                            THEN NoFile ELSE s.file
        /\ pc' = IF s.rerun THEN "rerun" ELSE "idle"
        /\ rendered' = s.rendered
        /\ shown' = s.shown
        /\ run' = [ev |-> ev, calls |-> s.calls, raised |-> s.raised,
                   errors |-> s.errors, aborted |-> s.aborted]

----------------------------------------------------------------------------
(* The user's interactions, each starting one script run. *)

Room == Len(chat_history) < MaxHist

\* "Start Chatting" on the onboarding form.
SubmitUserInfo ==
    /\ pc = "idle" /\ "user_info" \in rendered
    /\ \E n \in NameInputs, r \in RegionInputs :
         RunScript([kind |-> "user_info", a |-> n, b |-> r, n |-> 0],
                   [ok |-> FALSE, reply |-> <<>>], [ok |-> FALSE, reply |-> <<>>])

\* "Send Message" on the chat form.
SendMessage ==
    /\ pc = "idle" /\ "chat_form" \in rendered /\ Room
    /\ \E t \in TextInputs, o1 \in Outcomes, o2 \in Outcomes :
         RunScript([kind |-> "chat_form", a |-> t, b |-> <<>>, n |-> 0], o1, o2)

\* The user puts a file into the uploader, replaces it, or removes it.
ChangeFile ==
    /\ pc = "idle" /\ "uploader" \in rendered /\ Room
    /\ \E f \in (Files \cup {NoFile}) \ {uploaded_file}, o2 \in Outcomes :
         RunScript([kind |-> "upload", a |-> <<>>, b |-> <<>>, n |-> f], o2, o2)

\* "Start a new session".
StartNewSession ==
    /\ pc = "idle" /\ "new_session" \in rendered
    /\ \E o2 \in Outcomes :
         RunScript([kind |-> "new_session", a |-> <<>>, b |-> <<>>, n |-> 0], o2, o2)

\* One of the quick-suggestion buttons.
ClickSuggestion ==
    /\ pc = "idle" /\ "suggestions" \in rendered /\ Room
    /\ \E i \in 0..(Len(suggestions) - 1), o1 \in Outcomes, o2 \in Outcomes :
         RunScript([kind |-> "suggestion", a |-> <<>>, b |-> <<>>, n |-> i], o1, o2)

\* The run st.rerun() asked for.
Rerun ==
    /\ pc = "rerun"
    /\ \E o2 \in Outcomes : RunScript(NoEvent, o2, o2)

\* The first visit: the script has run once and shows the onboarding form.
Init ==
    /\ name = <<>>
    /\ region = <<>>
    /\ chat_history = <<>>
    /\ keys = AllKeys
    /\ uploaded_file = NoFile
    /\ pc = "idle"
    /\ rendered = {"user_info"}
    /\ shown = <<>>
    /\ run = [ev |-> NoEvent, calls |-> 0, raised |-> 0, errors |-> 0, aborted |-> FALSE]

Next ==
    \/ SubmitUserInfo
    \/ SendMessage
    \/ ChangeFile
    \/ StartNewSession
    \/ ClickSuggestion
    \/ Rerun

Spec == Init /\ [][Next]_vars

----------------------------------------------------------------------------
(* Vocabulary of the properties, stated without the operators of the model. *)

IsBlank(s) == \A i \in 1..Len(s) : s[i] = " "

\* s is i blanks, then a string that neither starts nor ends with a blank,
\* then j blanks.
IsTrimAt(s, i, j) ==
    /\ i + j <= Len(s)
    /\ \A k \in 1..i : s[k] = " "
    /\ \A k \in (Len(s) - j + 1)..Len(s) : s[k] = " "
    /\ i + j < Len(s) => (s[i + 1] # " " /\ s[Len(s) - j] # " ")

SameLetter(c, d) == c = d \/ {c, d} = {"a", "A"}

\* y is x with every word capitalised: a letter is upper case exactly when it
\* starts a word.
IsTitleOf(y, x) ==
    /\ Len(y) = Len(x)
    /\ \A i \in 1..Len(x) :
        /\ SameLetter(y[i], x[i])
        /\ y[i] \in {"a", "A"} => (y[i] = "A" <=> (i = 1 \/ x[i - 1] = " "))

\* y is s without its leading and trailing blanks, title-cased.
IsTrimmedTitle(y, s) ==
    \E i \in 0..Len(s), j \in 0..Len(s) :
        IsTrimAt(s, i, j) /\ IsTitleOf(y, SubSeq(s, i + 1, Len(s) - j))

ImageCount(h) == Cardinality({i \in 1..Len(h) : IsImageExchange(h[i])})

Chatting == name # <<>>

\* The run that has just ended was started by this widget.
Did(kind) == run'.ev.kind = kind

\* The run about to start is the rerun that a run started by this widget asked for.
RerunAfter(kind) == pc = "rerun" /\ run.ev.kind = kind

----------------------------------------------------------------------------
(* C1 *)

\* C1: whenever get_gemini_response raises during a script run, on any
\* submission path, the run is not aborted, an error is shown, and name,
\* region and chat_history are what they were before the run.
C1_UpstreamFailureIsCaught ==
    [][run'.raised > 0 =>
          /\ ~run'.aborted
          /\ run'.errors > 0
          /\ UNCHANGED <<name, region, chat_history>>]_vars

----------------------------------------------------------------------------
(* C2 *)

----------------------------------------------------------------------------
(* C3 *)

\* C3: a click on "Start a new session" in Chatting leaves name and region
\* unset and chat_history empty, and the next render is the onboarding form.
C3_FullResetClears ==
    [][/\ Did("new_session") =>
              /\ name' = <<>> /\ region' = <<>> /\ chat_history' = <<>>
              /\ pc' = "rerun"
       /\ RerunAfter("new_session") =>
              /\ name' = <<>> /\ region' = <<>> /\ chat_history' = <<>>
              /\ rendered' = {"user_info"}]_vars

----------------------------------------------------------------------------
(* C4 *)

----------------------------------------------------------------------------
(* C5 *)

\* C5 as stated: an onboarding submission with any non-empty identity string
\* stores the trimmed, title-cased identity and moves to Chatting.
C5_NonEmptyIdentityAccepted ==
    [][(Did("user_info") /\ run'.ev.a # <<>>) =>
          /\ name' # <<>>
          /\ IsTrimmedTitle(name', run'.ev.a)
          /\ pc' = "rerun"]_vars

\* C5 amended: an onboarding submission with an identity that is not blank
\* (non-empty after trimming) stores the trimmed, title-cased identity, and
\* the rerun it asks for renders the chat page.
C5_NonBlankIdentityAccepted ==
    [][/\ (Did("user_info") /\ ~IsBlank(run'.ev.a)) =>
              /\ name' # <<>>
              /\ IsTrimmedTitle(name', run'.ev.a)
              /\ pc' = "rerun"
       /\ RerunAfter("user_info") =>
              /\ name' = name
              /\ "chat_form" \in rendered' /\ "user_info" \notin rendered']_vars

\* An identity with a leading blank and mixed case was accepted.
C5_Witness ==
    /\ run.ev.kind = "user_info" /\ pc = "rerun"
    /\ run.ev.a = <<" ", "a", "A">>
    /\ name = <<"A", "a">>

----------------------------------------------------------------------------
(* C6 *)

\* C6: an onboarding submission with an empty or blank identity, whatever the
\* region field holds, shows a validation error and changes nothing: name and
\* region stay unset, chat_history stays empty, the onboarding form stays.
C6_BlankIdentityRejected ==
    [][(Did("user_info") /\ IsBlank(run'.ev.a)) =>
          /\ run'.errors = 1
          /\ name' = <<>> /\ region' = <<>> /\ chat_history' = <<>>
          /\ UNCHANGED <<name, region, chat_history>>
          /\ pc' = "idle"
          /\ rendered' = {"user_info"}]_vars

\* A blank, non-empty identity was submitted together with a region.
C6_Witness ==
    /\ run.ev.kind = "user_info"
    /\ run.ev.a = <<" ", " ">> /\ ~IsBlank(run.ev.b)
    /\ run.errors = 1 /\ name = <<>>

----------------------------------------------------------------------------
(* C7 *)

\* C7: in Chatting, a submission of empty or blank text is a no-op: the run
\* makes no call of get_gemini_response and leaves name, region and
\* chat_history as they were.
C7_BlankTextIsNoOp ==
    [][(Did("chat_form") /\ IsBlank(run'.ev.a)) =>
          /\ run'.calls = 0
          /\ UNCHANGED <<name, region, chat_history>>]_vars

----------------------------------------------------------------------------
(* C8 *)

\* C8: a successful onboarding submission stores "Nigeria" when the region
\* field is blank and the trimmed, title-cased region otherwise; and in every
\* state in which name is set, region is a non-empty string.
C8_RegionNeverEmpty ==
    [][/\ (Did("user_info") /\ pc' = "rerun") =>
              IF IsBlank(run'.ev.b)
              THEN region' = <<"Nigeria">>
              ELSE region' # <<>> /\ IsTrimmedTitle(region', run'.ev.b)
       /\ name' # <<>> => region' # <<>>]_vars

\* Onboarding succeeded with a blank, non-empty region field.
C8_Witness ==
    /\ run.ev.kind = "user_info" /\ run.ev.b = <<" ">>
    /\ Chatting /\ region = <<"Nigeria">>

----------------------------------------------------------------------------
(* C9 *)

\* C9: a run in which the user puts an image into the uploader and both
\* classification and upstream call succeed appends exactly one synthetic
\* Exchange and keeps name and region; no other run (text submission,
\* suggestion click, rerun, ...) adds a synthetic Exchange.
C9_OneExchangePerUpload ==
    [][/\ (Did("upload") /\ run'.ev.n # NoFile /\ run'.raised = 0) =>
              /\ \E r \in Replies :
                    chat_history' =
                        Append(chat_history,
                               <<ImageMessage(class_names[argmax(run'.ev.n) + 1]), r>>)
              /\ UNCHANGED <<name, region>>
       /\ ~Did("upload") => ImageCount(chat_history') <= ImageCount(chat_history)]_vars

----------------------------------------------------------------------------
(* C10 *)

\* C10: after a successful image submission the page shows the history list
\* with every Exchange of chat_history, the new one last; after a successful
\* text submission the rerun shows the list with every Exchange the
\* submission left, the new one last.
C10_SubmissionShowsFullHistory ==
    [][/\ (Did("upload") /\ run'.ev.n # NoFile /\ run'.raised = 0) =>
              shown' = chat_history'
       /\ (RerunAfter("chat_form") \/ RerunAfter("suggestion")) =>
              shown' = chat_history]_vars

----------------------------------------------------------------------------
(* C11 *)

\* C11: the session is never stuck: whenever the chat page is waiting for the
\* user, whatever the uploader holds and whatever the upstream call did, the
\* "Start a new session" button is on the page; a click on it is processed
\* (the keys are popped and a rerun is asked for) whatever the upstream call
\* does in that run; and the rerun shows the onboarding form.
C11_ResetAlwaysProcessed ==
    [][/\ (pc' = "idle" /\ name' # <<>>) => "new_session" \in rendered'
       /\ Did("new_session") => (keys' = {} /\ pc' = "rerun")
       /\ RerunAfter("new_session") => (name' = <<>> /\ rendered' = {"user_info"})]_vars

====
